---- MODULE Spec2Model ----
(***************************************************************************)
(* Model of the note-exte client: the App component's event feed           *)
(* (src/src/App.tsx) and the CreateNote component (src/unnamed/part_000).  *)
(*                                                                         *)
(* React state is modelled by one variable per useState cell; a setState   *)
(* call is applied at once (React applies queued updates in call order,    *)
(* so the sequence of values a cell takes is the same).  An effect is an   *)
(* action that is enabled while its dependencies differ from the ones it   *)
(* last ran with; it runs the previous run's cleanup first, as React does. *)
(***************************************************************************)
EXTENDS Integers, Sequences, FiniteSets

(***************************************************************************)
(* Bounds of the model.                                                    *)
(***************************************************************************)
MaxId == 3
MaxTs == 3
MaxAuthors == 2
MaxRelayEvents == 3
MaxEpochEvents == 2
MaxPools == 2
MaxTexts == 1
MaxNotes == 2
MaxAttempts == 1
MaxRelays == 2

VARIABLES
    pool,             \* App: useState pool; 0 is null, p > 0 the p-th SimplePool
    hashtags,         \* App: useState hashtags (no setter is ever called)
    eventsImmediate,  \* App: useState eventsImmediate, the feed
    events,           \* App: value returned by useDebounce(eventsImmediate, 1500)
    debouncePending,  \* App: the debounce timer is armed
    subDeps,          \* App: pool the subscription effect last ran with; -1 before its first run
    listening,        \* pool library: subscriptions whose "event" listener is registered
    tornDown,         \* App: subscriptions whose effect cleanup has run
    relayEvents,      \* environment: the kind-1 events the relays hold
    metadataFetched,  \* App: useRef metadataFetched, the pubkeys marked true
    metaEffectDue,    \* App: the metadata effect's deps [events, pool] changed since its last run
    metadataSubs,     \* pool library: per pubkey, the kind-0 subscriptions that named it (counted up to 2)
    arrivals,         \* history: events that arrived for the current subscription
    late,             \* history: events that arrived for a torn-down subscription since the last (re)subscription
    redelivered,      \* history: an event whose id the feed already held has arrived for the current subscription
    input,            \* CreateNote: useState input, the text of the textarea
    savedNotes,       \* CreateNote: useState savedNotes
    editedNoteIndex,  \* CreateNote: useState editedNoteIndex; Null or a 0-based index
    windowNostr,      \* environment: window.nostr, the signer extension, is present
    attempts,         \* CreateNote: the runs of handlePublish, each with its closure
    alert,            \* the text of the last alert shown, "" when none was
    acks,             \* environment: per publish attempt, the relays that have answered "ok"
    storage,          \* environment: localStorage, the item "savedNotes"
    mountPhase,       \* CreateNote: which of the mount effects runs next; "ready" after them
    saveEffectDue,    \* CreateNote: the save effect's deps [savedNotes] changed since its last run
    savedNotesRaw,    \* CreateNote: the value of the savedNotes cell when it is not an array of strings
    crashed,          \* CreateNote: an uncaught error has unmounted the component
    download,         \* environment: the file saved_notes.json written by the last export
    refusal,          \* history: the early return the last step took, if it was a click on Publish
    storageReads,     \* history: the calls of localStorage.getItem (counted up to 2)
    exported,         \* history: savedNotes at the last export
    handled,          \* history: the handler that ran last, with its index argument
    selectedNote      \* history: the text of the note the last handleEdit selected

metaVars == <<metadataFetched, metaEffectDue, metadataSubs>>

appVars == <<pool, hashtags, eventsImmediate, events, debouncePending, subDeps,
             listening, tornDown, relayEvents, metaVars>>

histVars == <<arrivals, late, redelivered>>

storeVars == <<storage, mountPhase, saveEffectDue, savedNotesRaw, crashed, download>>

noteHist == <<refusal, storageReads, exported, handled, selectedNote>>

noteVars == <<input, savedNotes, editedNoteIndex, windowNostr, attempts, alert, acks,
              storeVars, noteHist>>

vars == <<appVars, histVars, noteVars>>

(***************************************************************************)
(* Events.  An event carries the fields the feed reads: id, created_at     *)
(* (the timestamp) and pubkey.  Relays are not trusted to deliver an id    *)
(* with one timestamp only.                                                *)
(***************************************************************************)
AuthorOf(i) == ((i - 1) % MaxAuthors) + 1

Event == { [id |-> i, created_at |-> t, pubkey |-> AuthorOf(i)] :
             i \in 1..MaxId, t \in 1..MaxTs }

(***************************************************************************)
(* insertEventIntoDescendingList (utils/helperFunctions).                  *)
(***************************************************************************)
HasId(feed, id) == \E i \in 1..Len(feed) : feed[i].id = id

RECURSIVE FirstOlder(_, _, _)
\* scan from position i for the first resident with a strictly smaller timestamp
FirstOlder(sortedArray, ts, i) ==
    IF i > Len(sortedArray) THEN i
    ELSE IF sortedArray[i].created_at < ts THEN i
    ELSE FirstOlder(sortedArray, ts, i + 1)

insertEventIntoDescendingList(sortedArray, event) ==
    IF HasId(sortedArray, event.id)
    THEN sortedArray
    ELSE LET position == FirstOlder(sortedArray, event.created_at, 1)
         IN  SubSeq(sortedArray, 1, position - 1) \o <<event>>
                \o SubSeq(sortedArray, position, Len(sortedArray))

(***************************************************************************)
(* App: the feed subscription.                                             *)
(***************************************************************************)
\* faulty updaters, each the updater with one plausible slip
FeedUpdaterAppend(evs, event) ==
    IF HasId(evs, event.id) THEN evs ELSE Append(evs, event)

FeedUpdaterPrepend(evs, event) ==
    IF HasId(evs, event.id) THEN evs ELSE <<event>> \o evs

FeedUpdaterNoDedup(evs, event) ==
    LET position == FirstOlder(evs, event.created_at, 1)
    IN  SubSeq(evs, 1, position - 1) \o <<event>> \o SubSeq(evs, position, Len(evs))

FeedUpdaterUpsert(evs, event) ==
    LET IsOther(e) == e.id # event.id
    IN  insertEventIntoDescendingList(SelectSeq(evs, IsOther), event)

RECURSIVE FirstNotNewer(_, _, _)
FirstNotNewer(sortedArray, ts, i) ==
    IF i > Len(sortedArray) THEN i
    ELSE IF sortedArray[i].created_at <= ts THEN i
    ELSE FirstNotNewer(sortedArray, ts, i + 1)

FeedUpdaterBeforeTies(evs, event) ==
    IF HasId(evs, event.id)
    THEN evs
    ELSE LET position == FirstNotNewer(evs, event.created_at, 1)
         IN  SubSeq(evs, 1, position - 1) \o <<event>> \o SubSeq(evs, position, Len(evs))

FeedUpdaterNewestOnly(evs, event) ==
    SubSeq(insertEventIntoDescendingList(evs, event), 1, 1)

\* the updater passed to setEvents by the "event" handler
FeedUpdater(evs, event) == insertEventIntoDescendingList(evs, event)

\* useDebounce re-arms its timer whenever it is rendered with another value
DebounceArm(old, new) == debouncePending \/ new # old

\* sub.on("event", ...): the handler of the feed subscription
FeedOnEvent(event) ==
    /\ eventsImmediate' = FeedUpdater(eventsImmediate, event)
    /\ debouncePending' = DebounceArm(eventsImmediate, eventsImmediate')

\* a relay message carrying `event` for subscription s reaches the pool library,
\* which calls the listeners registered for s and drops the message otherwise
RelayMessage(s, event) ==
    /\ s \in listening \cup tornDown
    /\ event \in relayEvents
    /\ IF s \in listening
       THEN FeedOnEvent(event)
       ELSE UNCHANGED <<eventsImmediate, debouncePending>>
    /\ UNCHANGED <<pool, hashtags, events, subDeps, listening, tornDown, relayEvents>>
    /\ UNCHANGED metaVars
    /\ UNCHANGED noteVars

\* the pool effect: new SimplePool(), setPool(_pool); a re-run (remount, refresh)
\* closes the previous pool's relay connections and installs another pool.
\* pool is a dependency of the metadata effect
PoolEffect ==
    /\ pool < MaxPools
    /\ pool' = pool + 1
    /\ metaEffectDue' = TRUE
    /\ UNCHANGED <<hashtags, eventsImmediate, events, debouncePending, subDeps,
                   listening, tornDown, relayEvents, metadataFetched, metadataSubs>>
    /\ UNCHANGED noteVars

\* faulty cleanup: the subscription is never closed
UnsubForgotten(l, s) == l

\* sub.unsub(): the library forgets the listeners of subscription s
Unsub(l, s) == l \ {s}

\* faulty effect body: the feed is not cleared
ResetFeedKept(evs) == evs

\* setEvents([])
ResetFeed(evs) == << >>

\* the subscription effect, deps [hashtags, pool]: cleanup of the previous run,
\* then the effect body
SubscribeEffect ==
    /\ subDeps # pool
    /\ subDeps' = pool
    /\ tornDown' = IF subDeps > 0 THEN tornDown \cup {subDeps} ELSE tornDown
    /\ IF pool = 0
       THEN /\ listening' = IF subDeps > 0 THEN Unsub(listening, subDeps) ELSE listening
            /\ UNCHANGED <<eventsImmediate, debouncePending>>
       ELSE /\ eventsImmediate' = ResetFeed(eventsImmediate)
            /\ debouncePending' = TRUE
            /\ listening' = (IF subDeps > 0 THEN Unsub(listening, subDeps) ELSE listening)
                               \cup {pool}
    /\ UNCHANGED <<pool, hashtags, events, relayEvents>>
    /\ UNCHANGED metaVars
    /\ UNCHANGED noteVars

\* faulty debounce: the snapshot lacks the newest item
DebouncedValueTruncated(value) == IF value = << >> THEN value ELSE Tail(value)

\* the value useDebounce hands out when its timer fires
DebouncedValue(value) == value

\* useDebounce(eventsImmediate, 1500): the timer fires and hands out a new
\* snapshot; events is a dependency of the metadata effect
DebounceFire ==
    /\ debouncePending
    /\ events' = DebouncedValue(eventsImmediate)
    /\ debouncePending' = FALSE
    /\ metaEffectDue' = TRUE
    /\ UNCHANGED <<pool, hashtags, eventsImmediate, subDeps, listening, tornDown,
                   relayEvents, metadataFetched, metadataSubs>>
    /\ UNCHANGED noteVars

Pubkey == 1..MaxAuthors

\* faulty filter: every author of the snapshot is fetched again
PubkeysToFetchAll(evs, fetched) == [i \in 1..Len(evs) |-> evs[i].pubkey]

\* events.filter(metadataFetched.current[event.pubkey] !== true).map(pubkey);
\* two events of one author put the pubkey twice into the list
PubkeysToFetch(evs, fetched) ==
    LET unfetched(event) == event.pubkey \notin fetched
        kept == SelectSeq(evs, unfetched)
    IN  [i \in 1..Len(kept) |-> kept[i].pubkey]

\* pool.sub(RELAYS, [{kinds: [0], authors}]): one more subscription names
\* each pubkey of authors
MetadataSub(subs, authors) ==
    [k \in Pubkey |->
        IF (\E i \in 1..Len(authors) : authors[i] = k) /\ subs[k] < 2
        THEN subs[k] + 1
        ELSE subs[k]]

\* the metadata effect, deps [events, pool].  Its listeners only write the
\* metadata cell, which no code reads, and close the subscription at eose
MetadataEffect ==
    /\ metaEffectDue
    /\ metaEffectDue' = FALSE
    /\ IF pool = 0
       THEN UNCHANGED <<metadataFetched, metadataSubs>>
       ELSE LET pubkeysToFetch == PubkeysToFetch(events, metadataFetched)
            IN  /\ metadataFetched' = metadataFetched \cup
                       { pubkeysToFetch[i] : i \in 1..Len(pubkeysToFetch) }
                /\ metadataSubs' = MetadataSub(metadataSubs, pubkeysToFetch)
    /\ UNCHANGED <<pool, hashtags, eventsImmediate, events, debouncePending, subDeps,
                   listening, tornDown, relayEvents>>
    /\ UNCHANGED noteVars

(***************************************************************************)
(* CreateNote.  savedNotes holds the cell's value while it is an array of  *)
(* strings; any other value the code stores in the cell is in              *)
(* savedNotesRaw, and savedNotes is then empty.                            *)
(***************************************************************************)
Null == -1

NoteTexts == <<"a", "b", "c", "d">>

\* the texts the user types
Text == {""} \cup { NoteTexts[i] : i \in 1..MaxTexts }

Attempt == 1..MaxAttempts

IdleAttempt == [pc |-> "idle", content |-> "", clearedInput |-> FALSE]

(***************************************************************************)
(* JSON.  A text is a sequence of tokens; a value carries its type in t    *)
(* and its content in v.                                                   *)
(***************************************************************************)
QuotedTexts == <<"\"a\"", "\"b\"", "\"c\"", "\"d\"">>

JsString(s) == [t |-> "string", v |-> <<s>>]
JsNumber == [t |-> "number", v |-> <<"1">>]
JsNull == [t |-> "null", v |-> << >>]
JsObject == [t |-> "object", v |-> << >>]
JsArray(elements) == [t |-> "array", v |-> elements]

\* faulty serialisation: the text is written without its quotes
QuoteBare(s) == s

\* the string literal of a text
Quote(s) ==
    IF s = "" THEN "\"\""
    ELSE QuotedTexts[CHOOSE i \in 1..Len(NoteTexts) : NoteTexts[i] = s]

IsStringToken(token) ==
    token = "\"\"" \/ \E i \in 1..Len(QuotedTexts) : QuotedTexts[i] = token

Unquote(token) ==
    IF token = "\"\"" THEN ""
    ELSE NoteTexts[CHOOSE i \in 1..Len(QuotedTexts) : QuotedTexts[i] = token]

RECURSIVE JsonText(_)
RECURSIVE JsonJoin(_, _)
\* the elements of an array from position i on, separated by commas
JsonJoin(elements, i) ==
    IF i > Len(elements) THEN << >>
    ELSE IF i = Len(elements) THEN JsonText(elements[i])
    ELSE JsonText(elements[i]) \o <<",">> \o JsonJoin(elements, i + 1)

\* JSON.stringify(value)
JsonText(value) ==
    CASE value.t = "string" -> <<Quote(value.v[1])>>
      [] value.t = "number" -> <<"1">>
      [] value.t = "null"   -> <<"null">>
      [] value.t = "object" -> <<"{", "}">>
      [] value.t = "array"  -> <<"[">> \o JsonJoin(value.v, 1) \o <<"]">>

SyntaxError == [ok |-> FALSE, value |-> JsNull, next |-> 0]

RECURSIVE ParseValue(_, _)
RECURSIVE ParseElements(_, _, _)
\* the elements of an array after "[" or ",": a value, then "," or "]"
ParseElements(text, p, acc) ==
    LET r == ParseValue(text, p)
    IN  IF ~r.ok \/ r.next > Len(text) THEN SyntaxError
        ELSE IF text[r.next] = "]"
        THEN [ok |-> TRUE, value |-> JsArray(Append(acc, r.value)), next |-> r.next + 1]
        ELSE IF text[r.next] = ","
        THEN ParseElements(text, r.next + 1, Append(acc, r.value))
        ELSE SyntaxError

\* the value that starts at token p
ParseValue(text, p) ==
    IF p > Len(text) THEN SyntaxError
    ELSE IF IsStringToken(text[p])
    THEN [ok |-> TRUE, value |-> JsString(Unquote(text[p])), next |-> p + 1]
    ELSE IF text[p] = "1" THEN [ok |-> TRUE, value |-> JsNumber, next |-> p + 1]
    ELSE IF text[p] = "null" THEN [ok |-> TRUE, value |-> JsNull, next |-> p + 1]
    ELSE IF text[p] = "{"
    THEN IF p < Len(text) /\ text[p + 1] = "}"
         THEN [ok |-> TRUE, value |-> JsObject, next |-> p + 2]
         ELSE SyntaxError
    ELSE IF text[p] = "["
    THEN IF p < Len(text) /\ text[p + 1] = "]"
         THEN [ok |-> TRUE, value |-> JsArray(<< >>), next |-> p + 2]
         ELSE ParseElements(text, p + 1, << >>)
    ELSE SyntaxError

\* JSON.parse(text): ok is FALSE where it throws
JsonParse(text) ==
    LET r == ParseValue(text, 1)
    IN  IF r.ok /\ r.next = Len(text) + 1 THEN r ELSE SyntaxError

NoRaw == [t |-> "none", v |-> << >>]

NoFile == [present |-> FALSE, text |-> << >>]

NoHandler == [name |-> "", index |-> Null]

File(text) == [present |-> TRUE, text |-> text]

\* the array of the strings of notes
JsNotes(notes) == JsArray([i \in 1..Len(notes) |-> JsString(notes[i])])

IsStringArray(value) ==
    /\ value.t = "array"
    /\ \A i \in 1..Len(value.v) : value.v[i].t = "string"

\* the value of the savedNotes cell
NotesValue == IF savedNotesRaw = NoRaw THEN JsNotes(savedNotes) ELSE savedNotesRaw

\* the component is mounted and its mount effects have run
Mounted == mountPhase = "ready" /\ ~crashed

\* React runs the effects of a render before it handles what renders next
Settled == Mounted /\ ~saveEffectDue

\* savedNotes.map(...) in the render throws on a value that is no array
RenderThrows(value) == value.t # "array"

\* textarea onChange
SetInput(text) ==
    /\ Settled
    /\ input' = text
    /\ UNCHANGED <<savedNotes, editedNoteIndex, windowNostr, attempts, alert, acks>>
    /\ UNCHANGED storeVars
    /\ UNCHANGED <<appVars, histVars>>

\* faulty handler: the answer to window.confirm is not looked at
PublishStartConfirmIgnored(a, confirmPublish) ==
    /\ Settled
    /\ attempts[a].pc = "idle"
    /\ IF ~windowNostr
       THEN /\ alert' = "Nostr extension not found"
            /\ UNCHANGED attempts
       ELSE /\ attempts' = [attempts EXCEPT ![a] =
                               [pc |-> "getPublicKey", content |-> input,
                                clearedInput |-> FALSE]]
            /\ UNCHANGED alert
    /\ UNCHANGED <<input, savedNotes, editedNoteIndex, windowNostr, acks>>
    /\ UNCHANGED storeVars
    /\ UNCHANGED <<appVars, histVars>>

\* handlePublish up to its first await: the two early returns, the event
\* template, the call of window.nostr.getPublicKey()
PublishStart(a, confirmPublish) ==
    /\ Settled
    /\ attempts[a].pc = "idle"
    /\ IF ~windowNostr
       THEN /\ alert' = "Nostr extension not found"
            /\ UNCHANGED attempts
       ELSE IF ~confirmPublish
       THEN UNCHANGED <<attempts, alert>>
       ELSE /\ attempts' = [attempts EXCEPT ![a] =
                               [pc |-> "getPublicKey", content |-> input,
                                clearedInput |-> FALSE]]
            /\ UNCHANGED alert
    /\ UNCHANGED <<input, savedNotes, editedNoteIndex, windowNostr, acks>>
    /\ UNCHANGED storeVars
    /\ UNCHANGED <<appVars, histVars>>

\* getPublicKey() resolved: window.nostr.signEvent(_baseEvent) is called
GetPublicKeyResolved(a) ==
    /\ attempts[a].pc = "getPublicKey"
    /\ attempts' = [attempts EXCEPT ![a].pc = "signEvent"]
    /\ UNCHANGED <<input, savedNotes, editedNoteIndex, windowNostr, alert, acks>>
    /\ UNCHANGED storeVars
    /\ UNCHANGED <<appVars, histVars>>

\* faulty catch block: the draft is dropped with the failed attempt
PublishCatchClearsDraft(a) ==
    /\ alert' = "User rejected operation"
    /\ attempts' = [attempts EXCEPT ![a] = IdleAttempt]
    /\ input' = ""
    /\ editedNoteIndex' = Null
    /\ UNCHANGED <<savedNotes, windowNostr, acks>>
    /\ UNCHANGED storeVars
    /\ UNCHANGED <<appVars, histVars>>

\* the catch block of handlePublish
PublishCatch(a) ==
    /\ alert' = "User rejected operation"
    /\ attempts' = [attempts EXCEPT ![a] = IdleAttempt]
    /\ UNCHANGED <<input, savedNotes, editedNoteIndex, windowNostr, acks>>
    /\ UNCHANGED storeVars
    /\ UNCHANGED <<appVars, histVars>>

\* getPublicKey() or signEvent() rejected: the await throws into the catch block
SignerRejected(a) ==
    /\ attempts[a].pc \in {"getPublicKey", "signEvent"}
    /\ PublishCatch(a)

\* signEvent() resolved: the event is completed and pool.publish(RELAYS, event)
\* sends it; the "ok" listener is registered with clearedInput = false
SignEventResolved(a) ==
    /\ attempts[a].pc = "signEvent"
    /\ attempts' = [attempts EXCEPT ![a].pc = "published"]
    /\ UNCHANGED <<input, savedNotes, editedNoteIndex, windowNostr, alert, acks>>
    /\ UNCHANGED storeVars
    /\ UNCHANGED <<appVars, histVars>>

\* faulty listener: no clearedInput flag, every "ok" clears the form
PublishOkEveryAck(a) ==
    /\ Settled
    /\ attempts[a].pc = "published"
    /\ acks[a] < MaxRelays
    /\ acks' = [acks EXCEPT ![a] = @ + 1]
    /\ attempts' = [attempts EXCEPT ![a].clearedInput = TRUE]
    /\ input' = ""
    /\ editedNoteIndex' = Null
    /\ UNCHANGED <<savedNotes, windowNostr, alert>>
    /\ UNCHANGED storeVars
    /\ UNCHANGED <<appVars, histVars>>

\* pubs.on("ok", ...): one more of the relays acknowledged the event of
\* attempt a.  A relay that fails or never answers calls no handler
PublishOk(a) ==
    /\ Settled
    /\ attempts[a].pc = "published"
    /\ acks[a] < MaxRelays
    /\ acks' = [acks EXCEPT ![a] = @ + 1]
    /\ IF attempts[a].clearedInput
       THEN UNCHANGED <<attempts, input, editedNoteIndex>>
       ELSE /\ attempts' = [attempts EXCEPT ![a].clearedInput = TRUE]
            /\ input' = ""
            /\ editedNoteIndex' = Null
    /\ UNCHANGED <<savedNotes, windowNostr, alert>>
    /\ UNCHANGED storeVars
    /\ UNCHANGED <<appVars, histVars>>

\* faulty handler: while a note is edited, its text is replaced and the edit ends
handleSaveReplacesEdited ==
    /\ Settled /\ savedNotesRaw = NoRaw
    /\ Len(savedNotes) < MaxNotes
    /\ IF editedNoteIndex # Null /\ editedNoteIndex < Len(savedNotes)
       THEN /\ savedNotes' = [savedNotes EXCEPT ![editedNoteIndex + 1] = input]
            /\ editedNoteIndex' = Null
       ELSE /\ savedNotes' = Append(savedNotes, input)
            /\ UNCHANGED editedNoteIndex
    /\ input' = ""
    /\ saveEffectDue' = TRUE
    /\ UNCHANGED <<windowNostr, attempts, alert, acks>>
    /\ UNCHANGED <<storage, mountPhase, savedNotesRaw, crashed, download>>
    /\ UNCHANGED <<appVars, histVars>>

\* handleSave
handleSave ==
    /\ Settled /\ savedNotesRaw = NoRaw
    /\ Len(savedNotes) < MaxNotes
    /\ savedNotes' = Append(savedNotes, input)
    /\ input' = ""
    /\ saveEffectDue' = TRUE
    /\ UNCHANGED <<editedNoteIndex, windowNostr, attempts, alert, acks>>
    /\ UNCHANGED <<storage, mountPhase, savedNotesRaw, crashed, download>>
    /\ UNCHANGED <<appVars, histVars>>

\* handleEdit(indexToEdit), from the button of a rendered note
handleEdit(indexToEdit) ==
    /\ Settled /\ savedNotesRaw = NoRaw
    /\ indexToEdit \in 0..(Len(savedNotes) - 1)
    /\ editedNoteIndex' = indexToEdit
    /\ input' = savedNotes[indexToEdit + 1]
    /\ UNCHANGED <<savedNotes, windowNostr, attempts, alert, acks>>
    /\ UNCHANGED storeVars
    /\ UNCHANGED <<appVars, histVars>>

\* faulty handler: the edited note is deleted like any other
handleDeleteEdited(indexToDelete) ==
    /\ Settled /\ savedNotesRaw = NoRaw
    /\ indexToDelete \in 0..(Len(savedNotes) - 1)
    /\ savedNotes' = SubSeq(savedNotes, 1, indexToDelete)
                         \o SubSeq(savedNotes, indexToDelete + 2, Len(savedNotes))
    /\ saveEffectDue' = TRUE
    /\ IF editedNoteIndex # Null /\ editedNoteIndex = indexToDelete
       THEN /\ editedNoteIndex' = Null
            /\ input' = ""
       ELSE UNCHANGED <<input, editedNoteIndex>>
    /\ UNCHANGED <<windowNostr, attempts, alert, acks>>
    /\ UNCHANGED <<storage, mountPhase, savedNotesRaw, crashed, download>>
    /\ UNCHANGED <<appVars, histVars>>

\* handleDelete(indexToDelete), from the button of a rendered note
handleDelete(indexToDelete) ==
    /\ Settled /\ savedNotesRaw = NoRaw
    /\ indexToDelete \in 0..(Len(savedNotes) - 1)
    /\ IF editedNoteIndex # Null /\ editedNoteIndex = indexToDelete
       THEN /\ editedNoteIndex' = Null
            /\ input' = ""
            /\ UNCHANGED <<savedNotes, saveEffectDue>>
       ELSE /\ savedNotes' = SubSeq(savedNotes, 1, indexToDelete)
                                 \o SubSeq(savedNotes, indexToDelete + 2, Len(savedNotes))
            /\ saveEffectDue' = TRUE
            /\ UNCHANGED <<input, editedNoteIndex>>
    /\ UNCHANGED <<windowNostr, attempts, alert, acks>>
    /\ UNCHANGED <<storage, mountPhase, savedNotesRaw, crashed, download>>
    /\ UNCHANGED <<appVars, histVars>>

\* setSavedNotes(value)
SetSavedNotes(value) ==
    IF IsStringArray(value)
    THEN /\ savedNotes' = [i \in 1..Len(value.v) |-> value.v[i].v[1]]
         /\ savedNotesRaw' = NoRaw
    ELSE /\ savedNotes' = << >>
         /\ savedNotesRaw' = value

\* the load effect, deps []: it runs once, after the first render.  An
\* exception of JSON.parse is not caught: React skips the component's
\* remaining effects and unmounts it
LoadEffect ==
    /\ mountPhase = "load" /\ ~crashed
    /\ IF storage.present /\ storage.text # << >>
       THEN LET parsedNotes == JsonParse(storage.text)
            IN  IF parsedNotes.ok
                THEN /\ SetSavedNotes(parsedNotes.value)
                     /\ saveEffectDue' = TRUE
                     /\ mountPhase' = "save"
                     /\ UNCHANGED crashed
                ELSE /\ crashed' = TRUE
                     /\ UNCHANGED <<savedNotes, savedNotesRaw, saveEffectDue, mountPhase>>
       ELSE /\ mountPhase' = "save"
            /\ UNCHANGED <<savedNotes, savedNotesRaw, saveEffectDue, crashed>>
    /\ UNCHANGED <<input, editedNoteIndex, windowNostr, attempts, alert, acks>>
    /\ UNCHANGED <<storage, download>>
    /\ UNCHANGED <<appVars, histVars>>

\* the save effect of the first render, whose savedNotes is the initial [];
\* the render with the loaded value follows it
MountSaveEffect ==
    /\ mountPhase = "save" /\ ~crashed
    /\ storage' = File(JsonText(JsNotes(<< >>)))
    /\ mountPhase' = "ready"
    /\ crashed' = RenderThrows(NotesValue)
    /\ UNCHANGED <<input, savedNotes, editedNoteIndex, windowNostr, attempts, alert, acks>>
    /\ UNCHANGED <<saveEffectDue, savedNotesRaw, download>>
    /\ UNCHANGED <<appVars, histVars>>

\* faulty effect: it runs and writes nothing
SaveEffectNotWriting ==
    /\ Mounted
    /\ saveEffectDue
    /\ saveEffectDue' = FALSE
    /\ UNCHANGED <<input, savedNotes, editedNoteIndex, windowNostr, attempts, alert, acks>>
    /\ UNCHANGED <<storage, mountPhase, savedNotesRaw, crashed, download>>
    /\ UNCHANGED <<appVars, histVars>>

\* the save effect, deps [savedNotes], after a render with another savedNotes
SaveEffect ==
    /\ Mounted
    /\ saveEffectDue
    /\ storage' = File(JsonText(NotesValue))
    /\ saveEffectDue' = FALSE
    /\ UNCHANGED <<input, savedNotes, editedNoteIndex, windowNostr, attempts, alert, acks>>
    /\ UNCHANGED <<mountPhase, savedNotesRaw, crashed, download>>
    /\ UNCHANGED <<appVars, histVars>>

\* handleDownload: the browser writes the blob to saved_notes.json
handleDownload ==
    /\ Settled
    /\ download' = File(JsonText(NotesValue))
    /\ UNCHANGED <<input, savedNotes, editedNoteIndex, windowNostr, attempts, alert, acks>>
    /\ UNCHANGED <<storage, mountPhase, saveEffectDue, savedNotesRaw, crashed>>
    /\ UNCHANGED <<appVars, histVars>>

\* handleRestore: the user picked a file and reader.onload got its content
handleRestore(content) ==
    /\ Settled
    /\ LET parsedNotes == JsonParse(content)
       IN  IF parsedNotes.ok
           THEN /\ SetSavedNotes(parsedNotes.value)
                /\ saveEffectDue' = TRUE
                /\ crashed' = RenderThrows(parsedNotes.value)
                /\ UNCHANGED alert
           ELSE /\ alert' = "Invalid JSON file."
                /\ UNCHANGED <<savedNotes, savedNotesRaw, saveEffectDue, crashed>>
    /\ UNCHANGED <<input, editedNoteIndex, windowNostr, attempts, acks>>
    /\ UNCHANGED <<storage, mountPhase, download>>
    /\ UNCHANGED <<appVars, histVars>>

\* the lists of notes within the bounds
NoteList == UNION { [1..n -> Text] : n \in 0..MaxNotes }

\* the texts a file or the stored item may hold: the exports of the lists of
\* notes, texts that are no JSON, and JSON that is no array of strings
FileContent ==
    { JsonText(JsNotes(notes)) : notes \in NoteList }
    \cup { << >>, <<"[">>, <<"[", "\"a\"", ",", "]">>, <<"\"a\"", "\"a\"">> }
    \cup { <<"null">>, <<"1">>, <<"{", "}">>, <<"\"a\"">> }
    \cup { <<"[", "1", "]">>, <<"[", "\"a\"", ",", "null", "]">>, <<"[", "[", "]", "]">> }

\* the component after mount, over an empty store
InitNote ==
    /\ input = ""
    /\ savedNotes = << >>
    /\ editedNoteIndex = Null
    /\ attempts = [a \in Attempt |-> IdleAttempt]
    /\ alert = ""
    /\ acks = [a \in Attempt |-> 0]
    /\ storage = File(JsonText(JsNotes(<< >>)))
    /\ mountPhase = "ready"
    /\ saveEffectDue = FALSE
    /\ savedNotesRaw = NoRaw
    /\ crashed = FALSE
    /\ download = NoFile
    /\ refusal = ""
    /\ storageReads = 1
    /\ exported = [done |-> FALSE, notes |-> << >>]
    /\ handled = NoHandler
    /\ selectedNote = ""

InitApp ==
    /\ pool = 0
    /\ hashtags = << >>
    /\ eventsImmediate = << >>
    /\ events = << >>
    /\ debouncePending = FALSE
    /\ subDeps = -1
    /\ listening = {}
    /\ tornDown = {}
    /\ metadataFetched = {}
    /\ metaEffectDue = TRUE
    /\ metadataSubs = [k \in Pubkey |-> 0]

(***************************************************************************)
(* History of the arrivals, kept beside the program's steps.               *)
(***************************************************************************)
InitHistory ==
    /\ arrivals = {}
    /\ late = {}
    /\ redelivered = FALSE

\* a message for subscription s arrived
RecordArrival(s, event) ==
    IF s = subDeps
    THEN /\ arrivals' = arrivals \cup {event}
         /\ redelivered' = (redelivered \/ HasId(eventsImmediate, event.id))
         /\ late' = late
    ELSE /\ late' = late \cup {event}
         /\ UNCHANGED <<arrivals, redelivered>>

\* the subscription effect ran: a subscription to a new pool starts afresh
RecordSubscribe ==
    IF pool = 0
    THEN UNCHANGED histVars
    ELSE /\ arrivals' = {}
         /\ late' = {}
         /\ redelivered' = FALSE

(***************************************************************************)
(* SpecFeed: the feed of the App component from its first render on, over  *)
(* the pools and subscriptions it goes through.                            *)
(***************************************************************************)
InitFeed ==
    /\ InitApp
    /\ InitHistory
    /\ relayEvents \in { S \in SUBSET Event : Cardinality(S) <= MaxEpochEvents }
    /\ InitNote
    /\ windowNostr = TRUE

NextFeed ==
    \/ PoolEffect /\ UNCHANGED histVars
    \/ SubscribeEffect /\ RecordSubscribe
    \/ \E s \in 1..MaxPools, event \in Event :
          RelayMessage(s, event) /\ RecordArrival(s, event)

SpecFeed == InitFeed /\ [][NextFeed]_vars

(***************************************************************************)
(* SpecDebounce: the same, with the debounced snapshot of the feed.        *)
(***************************************************************************)
NextDebounce ==
    \/ PoolEffect /\ UNCHANGED histVars
    \/ SubscribeEffect /\ UNCHANGED histVars
    \/ DebounceFire /\ UNCHANGED histVars
    \/ \E s \in 1..MaxPools, event \in Event :
          RelayMessage(s, event) /\ UNCHANGED histVars

SpecDebounce == InitFeed /\ [][NextDebounce]_vars

(***************************************************************************)
(* SpecInsert: the feed of one running subscription, fed with the events   *)
(* of the relays in every order and with every repetition.                 *)
(***************************************************************************)
InitInsert ==
    /\ pool = 1
    /\ hashtags = << >>
    /\ eventsImmediate = << >>
    /\ events = << >>
    /\ debouncePending = FALSE
    /\ subDeps = 1
    /\ listening = {1}
    /\ tornDown = {}
    /\ metadataFetched = {}
    /\ metaEffectDue = TRUE
    /\ metadataSubs = [k \in Pubkey |-> 0]
    /\ InitHistory
    /\ relayEvents \in { S \in SUBSET Event : Cardinality(S) <= MaxRelayEvents }
    /\ InitNote
    /\ windowNostr = TRUE

NextInsert == \E event \in Event : RelayMessage(1, event) /\ RecordArrival(1, event)

SpecInsert == InitInsert /\ [][NextInsert]_vars

(***************************************************************************)
(* SpecMetadata: the App component with the metadata effect.  The effect   *)
(* reads the pubkeys of the snapshot only, so the relays hold one version  *)
(* of each event.                                                          *)
(***************************************************************************)
InitMetadata ==
    /\ InitApp
    /\ InitHistory
    /\ relayEvents \in { S \in SUBSET { e \in Event : e.created_at = 1 } :
                            Cardinality(S) <= MaxEpochEvents }
    /\ InitNote
    /\ windowNostr = TRUE

NextMetadata ==
    \/ PoolEffect /\ UNCHANGED histVars
    \/ SubscribeEffect /\ UNCHANGED histVars
    \/ DebounceFire /\ UNCHANGED histVars
    \/ MetadataEffect /\ UNCHANGED histVars
    \/ \E s \in 1..MaxPools, event \in Event :
          RelayMessage(s, event) /\ UNCHANGED histVars

SpecMetadata == InitMetadata /\ [][NextMetadata]_vars

(***************************************************************************)
(* History of the CreateNote component, kept beside the program's steps.   *)
(***************************************************************************)
\* a click on Publish: which of the two early returns it took, if any
RecordPublishClick(confirmPublish) ==
    /\ refusal' = IF ~windowNostr THEN "no signer"
                  ELSE IF ~confirmPublish THEN "declined"
                  ELSE ""
    /\ UNCHANGED <<storageReads, exported, handled, selectedNote>>

\* a step that is no click on Publish
RecordNoClick ==
    /\ refusal' = ""
    /\ UNCHANGED <<storageReads, exported, handled, selectedNote>>

\* localStorage.getItem was called
RecordRead ==
    /\ storageReads' = IF storageReads < 2 THEN storageReads + 1 ELSE storageReads
    /\ UNCHANGED <<refusal, exported, handled, selectedNote>>

\* the notes were exported
RecordExport ==
    /\ exported' = [done |-> TRUE, notes |-> savedNotes]
    /\ handled' = [name |-> "handleDownload", index |-> Null]
    /\ UNCHANGED <<refusal, storageReads, selectedNote>>

\* a handler ran
RecordHandler(name, index) ==
    /\ handled' = [name |-> name, index |-> index]
    /\ selectedNote' = IF name = "handleEdit" THEN savedNotes[index + 1] ELSE selectedNote
    /\ UNCHANGED <<refusal, storageReads, exported>>

(***************************************************************************)
(* SpecNote: the CreateNote component inside a mounted App, with the user  *)
(* typing, saving, editing and deleting while publish attempts run.        *)
(***************************************************************************)
InitNoteSpec ==
    /\ InitNote
    /\ windowNostr \in BOOLEAN
    /\ InitApp
    /\ InitHistory
    /\ relayEvents = {}

NextNote ==
    \/ \E text \in Text : SetInput(text) /\ RecordNoClick
    \/ \E a \in Attempt, confirmPublish \in BOOLEAN :
          PublishStart(a, confirmPublish) /\ RecordPublishClick(confirmPublish)
    \/ \E a \in Attempt : GetPublicKeyResolved(a) /\ RecordNoClick
    \/ \E a \in Attempt : SignerRejected(a) /\ RecordNoClick
    \/ \E a \in Attempt : SignEventResolved(a) /\ RecordNoClick
    \/ \E a \in Attempt : PublishOk(a) /\ RecordNoClick
    \/ handleSave /\ RecordNoClick
    \/ \E i \in 0..(MaxNotes - 1) : handleEdit(i) /\ RecordNoClick
    \/ \E i \in 0..(MaxNotes - 1) : handleDelete(i) /\ RecordNoClick
    \/ SaveEffect /\ RecordNoClick

SpecNote == InitNoteSpec /\ [][NextNote]_vars

(***************************************************************************)
(* SpecDrafts: the CreateNote component from its first render on, over     *)
(* every stored item, with the user typing, saving, editing, deleting,     *)
(* exporting and importing.                                                *)
(***************************************************************************)
InitDrafts ==
    /\ input = ""
    /\ savedNotes = << >>
    /\ editedNoteIndex = Null
    /\ attempts = [a \in Attempt |-> IdleAttempt]
    /\ alert = ""
    /\ acks = [a \in Attempt |-> 0]
    /\ storage \in {NoFile} \cup { File(content) : content \in FileContent }
    /\ mountPhase = "load"
    /\ saveEffectDue = FALSE
    /\ savedNotesRaw = NoRaw
    /\ crashed = FALSE
    /\ download = NoFile
    /\ refusal = ""
    /\ storageReads = 0
    /\ exported = [done |-> FALSE, notes |-> << >>]
    /\ handled = NoHandler
    /\ selectedNote = ""
    /\ windowNostr = TRUE
    /\ InitApp
    /\ InitHistory
    /\ relayEvents = {}

NextDrafts ==
    \/ LoadEffect /\ RecordRead
    \/ MountSaveEffect /\ UNCHANGED noteHist
    \/ SaveEffect /\ UNCHANGED noteHist
    \/ \E text \in Text : SetInput(text) /\ RecordHandler("onChange", Null)
    \/ handleSave /\ RecordHandler("handleSave", Null)
    \/ \E i \in 0..(MaxNotes - 1) : handleEdit(i) /\ RecordHandler("handleEdit", i)
    \/ \E i \in 0..(MaxNotes - 1) : handleDelete(i) /\ RecordHandler("handleDelete", i)
    \/ \E content \in FileContent : handleRestore(content) /\ RecordHandler("handleRestore", Null)

SpecDrafts == InitDrafts /\ [][NextDrafts]_vars

(***************************************************************************)
(* SpecExport: the mounted CreateNote component with the user typing,      *)
(* saving, editing and deleting, exporting the notes and importing the     *)
(* exported file.                                                          *)
(***************************************************************************)
NextExport ==
    \/ SaveEffect /\ UNCHANGED noteHist
    \/ \E text \in Text : SetInput(text) /\ RecordHandler("onChange", Null)
    \/ handleSave /\ RecordHandler("handleSave", Null)
    \/ \E i \in 0..(MaxNotes - 1) : handleEdit(i) /\ RecordHandler("handleEdit", i)
    \/ \E i \in 0..(MaxNotes - 1) : handleDelete(i) /\ RecordHandler("handleDelete", i)
    \/ handleDownload /\ RecordExport
    \/ download.present /\ handleRestore(download.text) /\ RecordHandler("handleRestore", Null)

SpecExport == InitNoteSpec /\ [][NextExport]_vars

(***************************************************************************)
(* Properties of the feed.                                                 *)
(***************************************************************************)
SortedDescending(feed) ==
    \A i \in 1..(Len(feed) - 1) : feed[i].created_at >= feed[i + 1].created_at

UniqueIds(feed) ==
    \A i, j \in 1..Len(feed) : i # j => feed[i].id # feed[j].id

IdCount(feed, id) == Cardinality({ i \in 1..Len(feed) : feed[i].id = id })

Elements(feed) == { feed[i] : i \in 1..Len(feed) }

\* feed with the element at position p taken out
Without(feed, p) == SubSeq(feed, 1, p - 1) \o SubSeq(feed, p + 1, Len(feed))

PairwiseDistinct(S) ==
    \A a, b \in S : a # b => a.id # b.id /\ a.created_at # b.created_at

\* C1: starting from an empty feed, after any sequence of event arrivals (any
\* timestamps, any order, repeated ids) every adjacent pair (a, b) of the feed
\* satisfies a.created_at >= b.created_at.
C1_SortInvariant == SortedDescending(eventsImmediate)

C1_Witness ==
    /\ Len(eventsImmediate) = 3
    /\ eventsImmediate[1].created_at > eventsImmediate[2].created_at
    /\ eventsImmediate[2].created_at > eventsImmediate[3].created_at
    /\ redelivered

\* C2: after any sequence of event arrivals, the same event delivered several
\* times included, no two elements of the feed share an id.
C2_UniqueIds == UniqueIds(eventsImmediate)

C2_Witness ==
    /\ redelivered
    /\ Len(eventsImmediate) = 2
    /\ Cardinality(arrivals) = 3

\* C3: for every feed the subscription can hold and every item whose id occurs
\* in it, the insert returns the same elements in the same order; inserting an
\* item twice gives the same feed as inserting it once.
C3_DuplicateNoOp ==
    \A event \in Event :
        /\ HasId(eventsImmediate, event.id)
              => FeedUpdater(eventsImmediate, event) = eventsImmediate
        /\ FeedUpdater(FeedUpdater(eventsImmediate, event), event)
              = FeedUpdater(eventsImmediate, event)

C3_Witness ==
    /\ redelivered
    /\ Len(eventsImmediate) = 3
    /\ Elements(eventsImmediate) = arrivals
    /\ eventsImmediate[1].created_at = eventsImmediate[3].created_at

\* C4: an item with a new id is placed immediately before the first element
\* whose timestamp is strictly less than its own, or at the end when there is
\* none, so after every element with an equal timestamp; A, B, C with equal
\* timestamps inserted in that order give [A, B, C].
C4_InsertPosition ==
    /\ \A event \in Event :
          ~HasId(eventsImmediate, event.id) =>
             LET result == FeedUpdater(eventsImmediate, event)
             IN  /\ Len(result) = Len(eventsImmediate) + 1
                 /\ \E p \in 1..Len(result) :
                       /\ result[p] = event
                       /\ Without(result, p) = eventsImmediate
                       /\ \A i \in 1..(p - 1) :
                             eventsImmediate[i].created_at >= event.created_at
                       /\ p <= Len(eventsImmediate)
                             => eventsImmediate[p].created_at < event.created_at
    /\ \A A, B, C \in relayEvents :
          /\ Cardinality({A.id, B.id, C.id}) = 3
          /\ A.created_at = B.created_at
          /\ B.created_at = C.created_at
          => FeedUpdater(FeedUpdater(FeedUpdater(<< >>, A), B), C) = <<A, B, C>>

C4_Witness ==
    /\ Len(eventsImmediate) = 3
    /\ eventsImmediate[1].created_at = eventsImmediate[2].created_at
    /\ eventsImmediate[2].created_at = eventsImmediate[3].created_at

\* C6: items with pairwise distinct ids and pairwise distinct timestamps,
\* inserted into an empty feed in any arrival order, yield the same feed: the
\* items in strictly descending timestamp order.
C6_OutOfOrderArrival ==
    PairwiseDistinct(arrivals) =>
        /\ Len(eventsImmediate) = Cardinality(arrivals)
        /\ Elements(eventsImmediate) = arrivals
        /\ \A i \in 1..(Len(eventsImmediate) - 1) :
              eventsImmediate[i].created_at > eventsImmediate[i + 1].created_at

C6_Witness ==
    /\ PairwiseDistinct(arrivals)
    /\ Cardinality(arrivals) = 3
    /\ Len(eventsImmediate) = 3

RECURSIVE IsSubsequence(_, _)
\* a is b with some elements left out
IsSubsequence(a, b) ==
    IF a = << >> THEN TRUE
    ELSE IF b = << >> THEN FALSE
    ELSE IF Head(a) = Head(b) THEN IsSubsequence(Tail(a), Tail(b))
    ELSE IsSubsequence(a, Tail(b))

\* C5: for every feed the subscription can hold and every item, the insert
\* returns a feed that holds the item (its id) exactly once and every prior
\* item, unchanged and in the same relative order; so between two runs of the
\* subscription effect the feed never loses or reorders an item.
C5_InsertOnlyAdds ==
    /\ [](\A event \in Event :
            LET result == FeedUpdater(eventsImmediate, event)
            IN  /\ IdCount(result, event.id) = 1
                /\ ~HasId(eventsImmediate, event.id) => event \in Elements(result)
                /\ Len(result) <= Len(eventsImmediate) + 1
                /\ IsSubsequence(eventsImmediate, result))
    /\ [][subDeps' = subDeps => IsSubsequence(eventsImmediate, eventsImmediate')]_vars

C5_Witness ==
    /\ Len(eventsImmediate) = 2
    /\ redelivered
    /\ tornDown # {}

\* C7: after the subscription effect re-ran for a new pool (or new hashtags)
\* the feed holds only items that arrived for the new subscription; it starts
\* empty and carries nothing over from the previous feed.
C7_EpochReset == Elements(eventsImmediate) \subseteq arrivals

C7_Witness ==
    /\ tornDown # {}
    /\ subDeps = pool
    /\ Len(eventsImmediate) = 1
    /\ \E event \in late : event \notin arrivals

\* C8: an event that arrives for a subscription whose cleanup has run does not
\* change the feed.
C8_Cancellation ==
    [][\A s \in 1..MaxPools, event \in Event :
          (s \in tornDown /\ RelayMessage(s, event) /\ RecordArrival(s, event))
             => eventsImmediate' = eventsImmediate]_vars

C8_Witness ==
    /\ eventsImmediate # << >>
    /\ \E event \in late : event \notin Elements(eventsImmediate)

\* C9: every value of the debounced feed is sorted by descending timestamp,
\* has unique ids, and each new value it takes is the value the immediate
\* feed holds at that moment.
C9_DebouncedSnapshot ==
    /\ [](SortedDescending(events) /\ UniqueIds(events))
    /\ [][events' # events => events' = eventsImmediate]_vars

C9_Witness ==
    /\ Len(events) = 2
    /\ events # eventsImmediate
    /\ eventsImmediate # << >>

(***************************************************************************)
(* Properties of CreateNote.                                               *)
(***************************************************************************)
Draft == <<input, savedNotes, editedNoteIndex>>

Published == { a \in Attempt : attempts[a].pc = "published" }

\* C10: no step handlePublish takes up to and including a rejection by the
\* signer (getPublicKey or signEvent throws) changes the input text, the saved
\* notes or the edited-note index; the rejection publishes nothing, shows the
\* notice and ends the attempt (its state is the one handlePublish starts
\* from), so that the user can publish again.
C10_RejectedSigningKeepsDraft ==
    [][\A a \in Attempt :
          /\ attempts'[a].pc # attempts[a].pc => Draft' = Draft
          /\ (attempts[a].pc \in {"getPublicKey", "signEvent"}
                 /\ attempts'[a].pc = "idle")
                => /\ attempts'[a] = IdleAttempt
                   /\ Published' = Published
                   /\ alert' = "User rejected operation"]_vars

C10_Witness ==
    /\ alert = "User rejected operation"
    /\ input # ""
    /\ savedNotes # << >>
    /\ editedNoteIndex # Null
    /\ \A a \in Attempt : attempts[a].pc = "idle"

\* the text is the JSON of an array of strings
IsNotesFile(content) ==
    LET parsed == JsonParse(content)
    IN  parsed.ok /\ IsStringArray(parsed.value)

\* C11: a click on Publish that stops at a precondition (no signer extension,
\* or the user declines the confirmation) starts no attempt, so that no event
\* is built, signed or published, and leaves the input text, the saved notes
\* and the edited-note index as they were; without a signer it shows the notice.
C11_PreconditionFailure ==
    [][refusal' # ""
          => /\ Draft' = Draft
             /\ attempts' = attempts
             /\ Published' = Published
             /\ refusal' = "no signer" => alert' = "Nostr extension not found"]_vars

C11_Witness ==
    /\ refusal = "declined"
    /\ input # ""
    /\ savedNotes # << >>
    /\ editedNoteIndex # Null
    /\ \A a \in Attempt : attempts[a].pc = "idle"

\* C12: the first "ok" of a publish clears the input and resets the
\* edited-note index, however many relays have not answered; every later "ok"
\* of the same publish changes nothing.
C12_FirstAckOnly ==
    [][\A a \in Attempt :
          acks'[a] # acks[a]
             => IF acks[a] = 0
                THEN /\ input' = ""
                     /\ editedNoteIndex' = Null
                     /\ savedNotes' = savedNotes
                ELSE /\ Draft' = Draft
                     /\ attempts' = attempts
                     /\ alert' = alert
                     /\ storeVars' = storeVars]_vars

C12_Witness ==
    \E a \in Attempt :
        /\ acks[a] = MaxRelays
        /\ input # ""
        /\ editedNoteIndex # Null

\* C18: handleDelete(i) on the note being edited only cancels the edit
\* (edited-note index null, input empty, saved notes as before); on any other
\* note it removes exactly note i, the other notes keeping their content and
\* their order, and leaves the input and the edited-note index as they were.
C18_DeleteOrCancelEdit ==
    [][\A i \in 0..(MaxNotes - 1) :
          handleDelete(i)
             => IF editedNoteIndex = i
                THEN /\ editedNoteIndex' = Null
                     /\ input' = ""
                     /\ savedNotes' = savedNotes
                ELSE /\ Len(savedNotes') = Len(savedNotes) - 1
                     /\ \A k \in 1..Len(savedNotes') :
                           savedNotes'[k] = savedNotes[IF k <= i THEN k ELSE k + 1]
                     /\ input' = input
                     /\ editedNoteIndex' = editedNoteIndex]_vars

C18_Witness ==
    /\ handled = [name |-> "handleDelete", index |-> 0]
    /\ editedNoteIndex = 1
    /\ input # ""
    /\ Len(savedNotes) = 1

\* C19: handleSave appends the input text as the last saved note and empties
\* the input; the notes saved before keep their content and position, and the
\* edited-note index stays, also while a note is being edited.
C19_SaveAppends ==
    [][handleSave
          => /\ Len(savedNotes') = Len(savedNotes) + 1
             /\ savedNotes'[Len(savedNotes')] = input
             /\ \A k \in 1..Len(savedNotes) : savedNotes'[k] = savedNotes[k]
             /\ input' = ""
             /\ editedNoteIndex' = editedNoteIndex]_vars

C19_Witness ==
    /\ handled.name = "handleSave"
    /\ editedNoteIndex # Null
    /\ Len(savedNotes) = MaxNotes
    /\ savedNotes[Len(savedNotes)] # ""
    /\ input = ""

\* C13: an import of a file whose content is not acceptable (no JSON, or JSON
\* that is no array of strings) shows the invalid-file notice and leaves the
\* saved notes, in memory and in the store, as they were.
C13_FailedImportKeepsDrafts ==
    [][\A content \in FileContent :
          (handleRestore(content) /\ ~IsNotesFile(content))
             => /\ alert' = "Invalid JSON file."
                /\ savedNotes' = savedNotes
                /\ savedNotesRaw' = savedNotesRaw
                /\ storage' = storage]_vars

\* C14: an import is accepted only when the content is an array of strings,
\* so that no save, delete, edit or import, whatever the file holds, makes
\* savedNotes anything else than a sequence of strings.
C14_NotesStayStrings ==
    [][/\ \A content \in FileContent :
             (handleRestore(content) /\ NotesValue' # NotesValue)
                => IsNotesFile(content)
       /\ (Mounted /\ IsStringArray(NotesValue)) => IsStringArray(NotesValue')]_vars

\* C15: when the item stored under "savedNotes" is malformed at load time,
\* the load step reports it, lets no exception escape and leaves the
\* in-memory list as it was, the component running on.
C15_MalformedStoreReported ==
    [][(LoadEffect /\ storage.present /\ storage.text # << >>
           /\ ~JsonParse(storage.text).ok)
          => /\ ~crashed'
             /\ alert' # ""
             /\ savedNotes' = savedNotes
             /\ savedNotesRaw' = savedNotesRaw]_vars

\* C16: over all snapshots of the feed and all pools, no pubkey is named in
\* the authors filter of more than one metadata subscription.
C16_MetadataRequestedOnce ==
    \A k \in Pubkey : metadataSubs[k] <= 1

C16_Witness ==
    /\ pool = MaxPools
    /\ ~metaEffectDue
    /\ Len(events) = 2
    /\ events[1].pubkey = events[2].pubkey
    /\ metadataSubs[events[1].pubkey] = 1

\* C17: once the effects of the last render have run, the item stored under
\* "savedNotes" is the JSON of the in-memory saved notes, the same strings in
\* the same order, after every save, delete and import of notes; the store
\* is read once only, by the load effect at mount.
C17_StoreFollowsNotes ==
    /\ (Settled /\ savedNotesRaw = NoRaw)
          => /\ storage.present
             /\ JsonParse(storage.text).ok
             /\ JsonParse(storage.text).value = JsNotes(savedNotes)
    /\ storageReads <= 1
    /\ storageReads = 0 <=> (mountPhase = "load" /\ ~crashed)

C17_Witness ==
    /\ handled.name = "handleDelete"
    /\ Settled
    /\ savedNotes # << >>
    /\ storageReads = 1

\* C20: importing the file that handleDownload exported makes savedNotes the
\* exported list again, the same strings in the same order, whatever the
\* notes, the input and the edited-note index are at the time of the import.
C20_ExportImportRoundTrip ==
    [][(download.present /\ handleRestore(download.text))
          => /\ savedNotes' = exported.notes
             /\ savedNotesRaw' = NoRaw
             /\ alert' = alert]_vars

C20_Witness ==
    /\ handled.name = "handleRestore"
    /\ exported.done
    /\ Len(savedNotes) = MaxNotes
    /\ savedNotes[1] # savedNotes[MaxNotes]
    /\ editedNoteIndex # Null
    /\ input # ""

\* C21: in every state reached by edits, saves, deletes, imports and publish
\* acknowledgements the edited-note index is null or an index of the saved
\* notes, and the note at that index is the one handleEdit selected.
C21_EditedIndexValid ==
    (savedNotesRaw = NoRaw /\ editedNoteIndex # Null)
       => /\ editedNoteIndex \in 0..(Len(savedNotes) - 1)
          /\ savedNotes[editedNoteIndex + 1] = selectedNote

\* C22: when the "ok" listener of a publish empties the input, the input is
\* the content of the published event, whatever typing, edits, saves and
\* further publishes took place between the publish and the acknowledgement.
C22_AckClearsPublishedText ==
    [][\A a \in Attempt :
          (acks[a] = 0 /\ acks'[a] = 1) => input = attempts[a].content]_vars

\* C23: while the user has performed no draft operation, no step of the mount
\* (load effect, save effects, re-render) changes a well-formed draft list
\* persisted under "savedNotes": the stored value stays the list found there.
C23_MountKeepsStoredDrafts ==
    [][(/\ handled' = NoHandler
        /\ storage.present
        /\ IsNotesFile(storage.text))
          => /\ storage'.present
             /\ JsonParse(storage'.text).value = JsonParse(storage.text).value]_vars

====
